---- MODULE Spec2Model ----
(***************************************************************************)
(* Session lifecycle of dcgm-rs (src/src/lib.rs): one DcgmHandle is opened *)
(* with new() or with_connection(), used through enable_power_metrics,     *)
(* enable_profiling_metrics and update_all_fields, and released by Drop.   *)
(* Spec composes opening, watch enrollment and teardown; SpecPoll composes *)
(* opening, profiling enrollment, refreshing and the reads; SpecFn applies *)
(* the value functions of dcgm_types.rs and metrics.rs to bounded inputs.  *)
(* The DCGM library is the environment: every status it returns and every  *)
(* value it writes through an out-pointer is an input of the action that   *)
(* makes the call.  `log` is the sequence of daemon calls issued so far,   *)
(* `hist` the sequence of operations the caller invoked with their results.*)
(***************************************************************************)
EXTENDS Integers, Sequences, FiniteSets, TLC

\* ---------------------------------------------------------------- bounds
MaxOps == 2        \* operations invoked on an open handle before it is dropped
MaxHandle == 1     \* the daemon assigns handle values 0..MaxHandle

\* ------------------------------------------------------ program constants
DCGM_ST_DUPLICATE_KEY == -26
DCGM_ST_REQUIRES_ROOT == -29

\* ------------------------------------------------------------ input sets
\* the statuses the code tells apart: success, duplicate key, requires root;
\* where the code does not single one out it stands for any other failure
Statuses == {0, DCGM_ST_DUPLICATE_KEY, DCGM_ST_REQUIRES_ROOT}
TeardownStatuses == {0, -1}
RefreshStatuses == {0, -1}
Handles == 0..MaxHandle
\* hostnames as byte strings: "h" and a name with an interior NUL byte
Hostnames == {<<104>>, <<104, 0>>}
\* Option<u16>: <<>> is None, <<p>> is Some(p) given as its decimal digits
Ports == {<<>>, <<53, 53, 53, 53>>}

EntryPoints ==
  {"dcgmInit", "dcgmStartEmbedded", "dcgmConnect", "dcgmUpdateAllFields",
   "dcgmFieldGroupCreate", "dcgmWatchFields", "dcgmUnwatchFields",
   "dcgmFieldGroupDestroy", "dcgmStopEmbedded", "dcgmShutdown",
   "dcgmGetAllDevices", "dcgmEntitiesGetLatestValues"}

VARIABLES
  pc,               \* "init" | "open" | "error" | "panic" | "closed"
  handle,           \* DcgmHandle.handle
  power_watched,    \* DcgmHandle.power_watched
  prof_watched,     \* DcgmHandle.prof_watched
  power_group_id,   \* DcgmHandle.power_group_id
  prof_group_id,    \* DcgmHandle.prof_group_id
  symtab,           \* DcgmHandle.lib: what lib.get has answered per entry point
  log,              \* daemon calls issued, in order
  hist,             \* operations invoked by the caller, with their results
  data,             \* what the daemon wrote for the last operation (buffer, batch)
  val               \* the value the last operation returned inside Ok(..)

vars == <<pc, handle, power_watched, prof_watched, power_group_id,
          prof_group_id, symtab, log, hist, data, val>>

\* one daemon call: entry point, the group id / handle / flag it carries
\* (for an out-parameter, the value the daemon wrote), and the status returned
Call(fn, arg, st) == [fn |-> fn, arg |-> arg, st |-> st]

\* lib.get(sym): the answers a lookup may give; a symbol looked up before
\* answers the same again
Lookup(sym) ==
  IF symtab[sym] = "unknown" THEN BOOLEAN ELSE {symtab[sym] = "present"}

Learn(tab, sym, ok) ==
  [tab EXCEPT ![sym] = IF ok THEN "present" ELSE "missing"]

\* the fields of a DcgmHandle value
Fields(h, pw, fw, pg, fg) ==
  [handle |-> h, power_watched |-> pw, prof_watched |-> fw,
   power_group_id |-> pg, prof_group_id |-> fg]

Self == Fields(handle, power_watched, prof_watched, power_group_id, prof_group_id)

\* end of an operation: the calls it issued, what it returned, the state it
\* left; d is the data the daemon wrote for it, v the value inside Ok(..)
RetV(op, res, code, calls, tab, f, npc, d, v) ==
  /\ log' = log \o calls
  /\ hist' = Append(hist, [op |-> op, res |-> res, code |-> code,
                           at |-> Len(log), ncalls |-> Len(calls), post |-> f])
  /\ symtab' = tab
  /\ handle' = f.handle
  /\ power_watched' = f.power_watched
  /\ prof_watched' = f.prof_watched
  /\ power_group_id' = f.power_group_id
  /\ prof_group_id' = f.prof_group_id
  /\ pc' = npc
  /\ data' = d
  /\ val' = v

\* end of an operation that returns () or an error
Ret(op, res, code, calls, tab, f, npc) ==
  RetV(op, res, code, calls, tab, f, npc, <<>>, <<>>)

Init ==
  /\ pc = "init"
  /\ handle = 0
  /\ power_watched = FALSE
  /\ prof_watched = FALSE
  /\ power_group_id = 0
  /\ prof_group_id = 0
  /\ symtab = [s \in EntryPoints |-> "unknown"]
  /\ log = <<>>
  /\ hist = <<>>
  /\ data = <<>>
  /\ val = <<>>

\* a handle that has not been constructed
NoHandle == Fields(0, FALSE, FALSE, 0, 0)

\* DcgmHandle { handle, lib, power_watched: false, prof_watched: false,
\*              power_group_id: 0, prof_group_id: 0 }
FreshHandle(h) == Fields(h, FALSE, FALSE, 0, 0)

\* the error new() returns when dcgmStartEmbedded reports a non-zero status
StartEmbeddedError(result) == "ApiError"

\* with_connection() reporting a refused connect like any other daemon error
ConnectErrorAsApi(result) ==
  IF result = DCGM_ST_REQUIRES_ROOT THEN "ApiError" ELSE "ConnectionFailed"

\* the error with_connection() returns when dcgmConnect reports a non-zero status
ConnectError(result) == "ConnectionFailed"

\* the tail shared by new() and with_connection(): the initial refresh, whose
\* status is only printed, then the construction of the handle
OpenTail(op, calls, tab, h) ==
  \E s3 \in Lookup("dcgmUpdateAllFields") :
    LET t3 == Learn(tab, "dcgmUpdateAllFields", s3) IN
    IF ~s3
    THEN Ret(op, "LibraryError", 0, calls, t3, NoHandle, "error")
    ELSE \E r3 \in RefreshStatuses :
           Ret(op, "Ok", 0, calls \o <<Call("dcgmUpdateAllFields", 1, r3)>>,
               t3, FreshHandle(h), "open")

\* DcgmHandle::new
new ==
  /\ pc = "init"
  /\ \E lib_ok \in BOOLEAN :
       IF ~lib_ok
       THEN Ret("new", "LibraryError", 0, <<>>, symtab, NoHandle, "error")
       ELSE
       \E s1 \in Lookup("dcgmInit") :
         LET t1 == Learn(symtab, "dcgmInit", s1) IN
         IF ~s1
         THEN Ret("new", "LibraryError", 0, <<>>, t1, NoHandle, "error")
         ELSE
         \E r1 \in Statuses :
           LET c1 == <<Call("dcgmInit", 0, r1)>> IN
           IF r1 # 0
           THEN Ret("new", "ApiError", r1, c1, t1, NoHandle, "error")
           ELSE
           \E s2 \in Lookup("dcgmStartEmbedded") :
             LET t2 == Learn(t1, "dcgmStartEmbedded", s2) IN
             IF ~s2
             THEN Ret("new", "LibraryError", 0, c1, t2, NoHandle, "error")
             ELSE
             \E r2 \in Statuses :
               \E h \in (IF r2 = 0 THEN Handles ELSE {0}) :
                 LET c2 == c1 \o <<Call("dcgmStartEmbedded", h, r2)>> IN
                 IF r2 # 0
                 THEN Ret("new", StartEmbeddedError(r2), r2, c2, t2, NoHandle, "error")
                 ELSE OpenTail("new", c2, t2, h)

\* format!("{}:{}", hostname, p) / hostname.to_string()
AddrString(hostname, port) ==
  IF port = <<>> THEN hostname ELSE hostname \o <<58>> \o port

\* CString::new(..) is Err when the bytes contain an interior NUL
HasNul(bytes) == \E i \in DOMAIN bytes : bytes[i] = 0

\* DcgmHandle::with_connection
with_connection ==
  /\ pc = "init"
  /\ \E hostname \in Hostnames, port \in Ports, lib_ok \in BOOLEAN :
       IF ~lib_ok
       THEN Ret("with_connection", "LibraryError", 0, <<>>, symtab, NoHandle, "error")
       ELSE
       \E s1 \in Lookup("dcgmInit") :
         LET t1 == Learn(symtab, "dcgmInit", s1) IN
         IF ~s1
         THEN Ret("with_connection", "LibraryError", 0, <<>>, t1, NoHandle, "error")
         ELSE
         \E r1 \in Statuses :
           LET c1 == <<Call("dcgmInit", 0, r1)>> IN
           IF r1 # 0
           THEN Ret("with_connection", "ApiError", r1, c1, t1, NoHandle, "error")
           ELSE
           \E s2 \in Lookup("dcgmConnect") :
             LET t2 == Learn(t1, "dcgmConnect", s2) IN
             IF ~s2
             THEN Ret("with_connection", "LibraryError", 0, c1, t2, NoHandle, "error")
             ELSE
             IF HasNul(AddrString(hostname, port))
             THEN Ret("with_connection", "panic", 0, c1, t2, NoHandle, "panic")
             ELSE
             \E r2 \in Statuses :
               \E h \in (IF r2 = 0 THEN Handles ELSE {0}) :
                 LET c2 == c1 \o <<Call("dcgmConnect", h, r2)>> IN
                 IF r2 # 0
                 THEN Ret("with_connection", ConnectError(r2), r2, c2, t2, NoHandle, "error")
                 ELSE OpenTail("with_connection", c2, t2, h)

\* the caller may invoke another operation on the open handle
CanCall == pc = "open" /\ Len(hist) < 1 + MaxOps

\* an enrollment of the power category that marks both categories watched
PowerEnabledWithProfiling(f) ==
  [f EXCEPT !.power_watched = TRUE, !.prof_watched = TRUE]

\* self.power_watched = true;
PowerEnabled(f) == [f EXCEPT !.power_watched = TRUE]

\* DcgmHandle::enable_power_metrics
enable_power_metrics ==
  /\ CanCall
  /\ IF power_watched
     THEN Ret("enable_power_metrics", "Ok", 0, <<>>, symtab, Self, "open")
     ELSE Ret("enable_power_metrics", "Ok", 0, <<>>, symtab,
              PowerEnabled(Self), "open")

\* field-group ids the daemon has handed out to this session
CreatedGroups(calls) ==
  {calls[i].arg : i \in {j \in DOMAIN calls :
       calls[j].fn = "dcgmFieldGroupCreate" /\ calls[j].st = 0}}

\* enrollment without the early return for an already watched category
AlreadyWatchedIgnored(flag) == FALSE

\* the id the daemon writes for a new field group: ids are opaque to the
\* program, which only compares them with 0, so the daemon is taken to number
\* the groups of a session 1, 2, ...
NewGroupId(calls) == Cardinality(CreatedGroups(calls)) + 1

\* if self.prof_watched { return Ok(()) } / if self.power_watched { return Ok(()) }
AlreadyWatched(flag) == flag

\* a group creation that treats duplicate key like any other failure
CreateFailedOnDuplicate(result) == result # 0

\* if result != 0 && result != -26 /* DCGM_ST_DUPLICATE_KEY */
CreateFailed(result) == result # 0 /\ result # DCGM_ST_DUPLICATE_KEY

\* enable_profiling_metrics without the DCGM_ST_REQUIRES_ROOT case
WatchErrorApiOnly(result) == "ApiError"

\* the error enable_profiling_metrics returns for a non-zero dcgmWatchFields status
WatchError(result) ==
  IF result = DCGM_ST_REQUIRES_ROOT THEN "RequiresRoot" ELSE "ApiError"

\* enable_profiling_metrics that forgets to record the accepted watch
WatchedAfterWatchUnset(result) == FALSE

\* self.prof_watched = true; after dcgmWatchFields returned 0
WatchedAfterWatch(result) == result = 0

\* DcgmHandle::enable_profiling_metrics
enable_profiling_metrics ==
  /\ CanCall
  /\ IF AlreadyWatched(prof_watched)
     THEN Ret("enable_profiling_metrics", "Ok", 0, <<>>, symtab, Self, "open")
     ELSE
     \E s1 \in Lookup("dcgmFieldGroupCreate") :
       LET t1 == Learn(symtab, "dcgmFieldGroupCreate", s1) IN
       IF ~s1
       THEN Ret("enable_profiling_metrics", "LibraryError", 0, <<>>, t1, Self, "open")
       ELSE
       \E r1 \in Statuses :
         \* the daemon writes a new group id on success and nothing otherwise
         \E field_group_id \in (IF r1 = 0 THEN {NewGroupId(log)} ELSE {0}) :
           LET c1 == <<Call("dcgmFieldGroupCreate", field_group_id, r1)>> IN
           IF CreateFailed(r1)
           THEN Ret("enable_profiling_metrics", "ApiError", r1, c1, t1, Self, "open")
           ELSE
           LET f1 == [Self EXCEPT !.prof_group_id = field_group_id] IN
           \E s2 \in Lookup("dcgmWatchFields") :
             LET t2 == Learn(t1, "dcgmWatchFields", s2) IN
             IF ~s2
             THEN Ret("enable_profiling_metrics", "LibraryError", 0, c1, t2, f1, "open")
             ELSE
             \E r2 \in Statuses :
               LET c2 == c1 \o <<Call("dcgmWatchFields", field_group_id, r2)>> IN
               IF r2 # 0
               THEN Ret("enable_profiling_metrics", WatchError(r2), r2, c2, t2, f1, "open")
               ELSE Ret("enable_profiling_metrics", "Ok", 0, c2, t2,
                        [f1 EXCEPT !.prof_watched = WatchedAfterWatch(r2)], "open")

\* a refresh that never waits for the daemon
WaitFlagNever(wait_for_update) == 0

\* let wait_flag = if wait_for_update { 1 } else { 0 };
WaitFlag(wait_for_update) == IF wait_for_update THEN 1 ELSE 0

\* a refresh that is issued again after a non-zero status
RefreshCallsRetried(wait_flag, result) ==
  IF result # 0
  THEN <<Call("dcgmUpdateAllFields", wait_flag, result),
         Call("dcgmUpdateAllFields", wait_flag, result)>>
  ELSE <<Call("dcgmUpdateAllFields", wait_flag, result)>>

\* the one dcgmUpdateAllFields call of update_all_fields
RefreshCalls(wait_flag, result) == <<Call("dcgmUpdateAllFields", wait_flag, result)>>

\* DcgmHandle::update_all_fields
update_all_fields ==
  /\ CanCall
  /\ \E wait_for_update \in BOOLEAN :
     \E s1 \in Lookup("dcgmUpdateAllFields") :
       LET t1 == Learn(symtab, "dcgmUpdateAllFields", s1) IN
       IF ~s1
       THEN Ret("update_all_fields", "LibraryError", 0, <<>>, t1, Self, "open")
       ELSE
       \E r1 \in RefreshStatuses :
         LET c1 == RefreshCalls(WaitFlag(wait_for_update), r1) IN
         IF r1 # 0
         THEN Ret("update_all_fields", "ApiError", r1, c1, t1, Self, "open")
         ELSE Ret("update_all_fields", "Ok", 0, c1, t1, Self, "open")

\* let mut gpu_ids: [u32; 32] = [0; 32]
DCGM_MAX_NUM_DEVICES == 32

\* the counts dcgmGetAllDevices may write through its i32 out-pointer
DeviceCounts == {-1, 0, 1, 2, DCGM_MAX_NUM_DEVICES, DCGM_MAX_NUM_DEVICES + 1}

\* the identifier the daemon writes into slot i when it reports n devices:
\* listed upwards from 0 or downwards from n - 1
DeviceOrders == {"up", "down"}

DeviceIdAt(order, n, i) == IF order = "up" THEN i - 1 ELSE n - i

\* gpu_ids after the call: zeroed, then the slots the daemon filled
GpuIdsBuffer(order, count) ==
  [i \in 1..DCGM_MAX_NUM_DEVICES |->
     IF i <= count THEN DeviceIdAt(order, count, i) ELSE 0]

\* get_device_ids returning one identifier fewer than the daemon counted
DeviceIdsSliceShort(gpu_ids, count) ==
  IF count = 0 THEN <<>> ELSE SubSeq(gpu_ids, 1, count - 1)

\* gpu_ids[0..count as usize].to_vec(); the range is checked against the
\* 32 slots, and a negative count is a huge usize
DeviceIdsSlice(gpu_ids, count) == SubSeq(gpu_ids, 1, count)

SliceInRange(count) == 0 <= count /\ count <= DCGM_MAX_NUM_DEVICES

\* DcgmHandle::get_device_ids
get_device_ids ==
  /\ CanCall
  /\ \E s1 \in Lookup("dcgmGetAllDevices") :
       LET t1 == Learn(symtab, "dcgmGetAllDevices", s1) IN
       IF ~s1
       THEN Ret("get_device_ids", "LibraryError", 0, <<>>, t1, Self, "open")
       ELSE
       \E result \in Statuses :
         \E count \in (IF result = 0 THEN DeviceCounts ELSE {0}) :
         \E order \in (IF count > 0 THEN DeviceOrders ELSE {"up"}) :
           LET gpu_ids == GpuIdsBuffer(order, count)
               c1 == <<Call("dcgmGetAllDevices", count, result)>>
           IN IF result # 0
              THEN Ret("get_device_ids", "ApiError", result, c1, t1, Self, "open")
              ELSE IF ~SliceInRange(count)
              THEN RetV("get_device_ids", "panic", 0, c1, t1, Self, "panic",
                        gpu_ids, <<>>)
              ELSE RetV("get_device_ids", "Ok", 0, c1, t1, Self, "open",
                        gpu_ids, DeviceIdsSlice(gpu_ids, count))

\* ------------------------------------------------------------------------
\* Field values (src/src/dcgm_types.rs) and the snapshot (src/src/metrics.rs)
\* ------------------------------------------------------------------------

\* field identifiers
DCGM_FI_DEV_SM_CLOCK == 100
DCGM_FI_DEV_MEM_CLOCK == 101
DCGM_FI_DEV_CLOCKS_EVENT_REASONS == 112
DCGM_FI_DEV_GPU_TEMP == 150
DCGM_FI_DEV_GPU_MAX_OP_TEMP == 152
DCGM_FI_DEV_POWER_USAGE == 155
DCGM_FI_DEV_TOTAL_ENERGY_CONSUMPTION == 156
DCGM_FI_DEV_ENFORCED_POWER_LIMIT == 164
DCGM_FI_DEV_GPU_UTIL == 203
DCGM_FI_DEV_POWER_VIOLATION == 240
DCGM_FI_DEV_THERMAL_VIOLATION == 241
DCGM_FI_DEV_FB_TOTAL == 250
DCGM_FI_DEV_FB_FREE == 251
DCGM_FI_DEV_FB_USED == 252
DCGM_FI_PROF_SM_ACTIVE == 1002

\* clock event reason bits
DCGM_CLOCKS_EVENT_REASON_GPU_IDLE == 1
DCGM_CLOCKS_EVENT_REASON_CLOCKS_SETTING == 2
DCGM_CLOCKS_EVENT_REASON_SW_POWER_CAP == 4
DCGM_CLOCKS_EVENT_REASON_HW_SLOWDOWN == 8
DCGM_CLOCKS_EVENT_REASON_SYNC_BOOST == 16
DCGM_CLOCKS_EVENT_REASON_SW_THERMAL == 32
DCGM_CLOCKS_EVENT_REASON_HW_THERMAL == 64
DCGM_CLOCKS_EVENT_REASON_HW_POWER_BRAKE == 128
DCGM_CLOCKS_EVENT_REASON_DISPLAY_CLOCKS == 256

\* A 64-bit integer is written as four 16-bit limbs, most significant first:
\* <<h, a, b, l>> is h * 2^48 + a * 2^32 + b * 2^16 + l with a, b, l in
\* 0..65535; h is in -32768..32767 for an i64 and in 0..65535 for a u64.
\* A double is written in fixed point, <<h, a, b, t>> being
\* h * 2^32 + a * 2^16 + b + t / 1000 with t in 0..999 (NaN is not represented).
LimbBase == 65536

\* x >= y on values written most significant limb first
GreaterOrEqual(x, y) ==
  \/ x = y
  \/ \E i \in 1..4 : x[i] > y[i] /\ \A j \in 1..(i - 1) : x[j] = y[j]

\* 0x7ffffffffffffff0
DCGM_INT64_BLANK == <<32767, 65535, 65535, 65520>>

\* 140737488355328.0, which is 2^47
DCGM_FP64_BLANK == <<32768, 0, 0, 0>>

\* is_int64_blank comparing with > where the code has >=
is_int64_blank_strict(v) == v # DCGM_INT64_BLANK /\ GreaterOrEqual(v, DCGM_INT64_BLANK)

\* pub fn is_int64_blank(val: i64) -> bool
is_int64_blank(v) == GreaterOrEqual(v, DCGM_INT64_BLANK)

\* pub fn is_fp64_blank(val: f64) -> bool
is_fp64_blank(v) == GreaterOrEqual(v, DCGM_FP64_BLANK)

\* value as u64: the same 64 bits read unsigned
AsU64(v) == <<v[1] % LimbBase, v[2], v[3], v[4]>>

\* reasons & bit != 0, for a constant with a single bit among the low 16
HasBit(reasons, bit) == (reasons[4] \div bit) % 2 = 1

\* Option<T>: <<>> is None, <<x>> is Some(x)
None == <<>>
Some(x) == <<x>>

\* GpuMetrics::new
NewGpuMetrics(device_id) ==
  [device_id |-> device_id, timestamp |-> 0,
   power_usage |-> None, energy_consumption |-> None,
   enforced_power_limit |-> None, power_violation_time |-> None,
   gpu_temp |-> None, max_gpu_temp |-> None, thermal_violation_time |-> None,
   fb_total |-> None, fb_free |-> None, fb_used |-> None,
   gpu_util |-> None, sm_clock |-> None, mem_clock |-> None,
   clock_throttle_reasons |-> None, throttle_reasons |-> None]

\* the decoded names, in the order decode_throttle_reasons pushes them
DecodedReasons(reasons) ==
  (IF HasBit(reasons, DCGM_CLOCKS_EVENT_REASON_GPU_IDLE)
   THEN <<"GPU_IDLE">> ELSE <<>>)
  \o (IF HasBit(reasons, DCGM_CLOCKS_EVENT_REASON_CLOCKS_SETTING)
      THEN <<"CLOCKS_SETTING">> ELSE <<>>)
  \o (IF HasBit(reasons, DCGM_CLOCKS_EVENT_REASON_SW_POWER_CAP)
      THEN <<"SW_POWER_CAP">> ELSE <<>>)
  \o (IF HasBit(reasons, DCGM_CLOCKS_EVENT_REASON_HW_SLOWDOWN)
      THEN <<"HW_SLOWDOWN">> ELSE <<>>)
  \o (IF HasBit(reasons, DCGM_CLOCKS_EVENT_REASON_SW_THERMAL)
      THEN <<"SW_THERMAL">> ELSE <<>>)
  \o (IF HasBit(reasons, DCGM_CLOCKS_EVENT_REASON_HW_THERMAL)
      THEN <<"HW_THERMAL">> ELSE <<>>)
  \o (IF HasBit(reasons, DCGM_CLOCKS_EVENT_REASON_HW_POWER_BRAKE)
      THEN <<"HW_POWER_BRAKE">> ELSE <<>>)

\* GpuMetrics::decode_throttle_reasons
decode_throttle_reasons(metrics) ==
  IF metrics.clock_throttle_reasons # None
  THEN [metrics EXCEPT
          !.throttle_reasons = Some(DecodedReasons(metrics.clock_throttle_reasons[1]))]
  ELSE metrics

\* one DcgmFieldValue: the field id, the timestamp, and the union read as the
\* member the code reads for that field id
FieldValue(field_id, timestamp, value) ==
  [field_id |-> field_id, timestamp |-> timestamp, value |-> value]

\* the field_ids array of get_basic_metrics
BasicFieldIds ==
  <<DCGM_FI_DEV_POWER_USAGE, DCGM_FI_DEV_TOTAL_ENERGY_CONSUMPTION,
    DCGM_FI_DEV_GPU_TEMP, DCGM_FI_DEV_GPU_MAX_OP_TEMP,
    DCGM_FI_DEV_ENFORCED_POWER_LIMIT, DCGM_FI_DEV_FB_TOTAL,
    DCGM_FI_DEV_FB_FREE, DCGM_FI_DEV_FB_USED, DCGM_FI_DEV_GPU_UTIL,
    DCGM_FI_DEV_SM_CLOCK, DCGM_FI_DEV_MEM_CLOCK, DCGM_FI_DEV_POWER_VIOLATION,
    DCGM_FI_DEV_THERMAL_VIOLATION, DCGM_FI_DEV_CLOCKS_EVENT_REASONS>>

\* the match arms that read value.i64 and store Some(value): field id -> field
Int64Arm(field_id) ==
  CASE field_id = DCGM_FI_DEV_TOTAL_ENERGY_CONSUMPTION -> "energy_consumption"
    [] field_id = DCGM_FI_DEV_GPU_TEMP -> "gpu_temp"
    [] field_id = DCGM_FI_DEV_GPU_MAX_OP_TEMP -> "max_gpu_temp"
    [] field_id = DCGM_FI_DEV_ENFORCED_POWER_LIMIT -> "enforced_power_limit"
    [] field_id = DCGM_FI_DEV_FB_TOTAL -> "fb_total"
    [] field_id = DCGM_FI_DEV_FB_FREE -> "fb_free"
    [] field_id = DCGM_FI_DEV_FB_USED -> "fb_used"
    [] field_id = DCGM_FI_DEV_GPU_UTIL -> "gpu_util"
    [] field_id = DCGM_FI_DEV_SM_CLOCK -> "sm_clock"
    [] field_id = DCGM_FI_DEV_MEM_CLOCK -> "mem_clock"
    [] field_id = DCGM_FI_DEV_POWER_VIOLATION -> "power_violation_time"
    [] field_id = DCGM_FI_DEV_THERMAL_VIOLATION -> "thermal_violation_time"
    [] OTHER -> "none"

\* a match that stores a blank value as well
StoreInt64Unchecked(metrics, field, value) ==
  [metrics EXCEPT ![field] = Some(value)]

\* if !is_int64_blank(value) { metrics.<field> = Some(value); }
StoreInt64(metrics, field, value) ==
  IF ~is_int64_blank(value) THEN [metrics EXCEPT ![field] = Some(value)] ELSE metrics

\* match field_value.field_id { .. }: one record into the snapshot
MatchFieldValue(metrics, field_value) ==
  IF field_value.field_id = DCGM_FI_DEV_POWER_USAGE
  THEN (IF ~is_fp64_blank(field_value.value)
        THEN [metrics EXCEPT !.power_usage = Some(field_value.value)]
        ELSE metrics)
  ELSE IF Int64Arm(field_value.field_id) # "none"
  THEN StoreInt64(metrics, Int64Arm(field_value.field_id), field_value.value)
  ELSE IF field_value.field_id = DCGM_FI_DEV_CLOCKS_EVENT_REASONS
  THEN (IF ~is_int64_blank(field_value.value)
        THEN [metrics EXCEPT !.clock_throttle_reasons = Some(AsU64(field_value.value))]
        ELSE metrics)
  ELSE metrics

\* if field_value.timestamp > latest_timestamp { latest_timestamp = .. }
LatestTimestamp(latest_timestamp, timestamp) ==
  IF timestamp > latest_timestamp THEN timestamp ELSE latest_timestamp

\* for field_value in field_values { .. }, then metrics.timestamp = latest_timestamp
RECURSIVE ProcessFieldValues(_, _, _)
ProcessFieldValues(field_values, metrics, latest_timestamp) ==
  IF field_values = <<>>
  THEN [metrics EXCEPT !.timestamp = latest_timestamp]
  ELSE ProcessFieldValues(Tail(field_values),
                          MatchFieldValue(metrics, Head(field_values)),
                          LatestTimestamp(latest_timestamp, Head(field_values).timestamp))

\* a result: Ok(value) or Err(error)
Ok(v) == [res |-> "Ok", code |-> 0, msg |-> "", value |-> v]
Err(kind, code, msg) == [res |-> kind, code |-> code, msg |-> msg, value |-> <<>>]

\* an assembler that returns an all-empty snapshot for a batch with no records
EmptyBatchAccepted(field_values) == FALSE

\* if field_values.is_empty()
EmptyBatch(field_values) == field_values = <<>>

\* get_basic_metrics from the returned batch on: lines 124-237
AssembleBasicMetrics(device_id, field_values) ==
  IF EmptyBatch(field_values)
  THEN Err("FieldValueError", 0, "No metrics data returned")
  ELSE Ok(decode_throttle_reasons(
            ProcessFieldValues(field_values, NewGpuMetrics(device_id), 0)))

\* ------------------------------------------------------------------------
\* The paired power / SM-activity snapshot.  Its code is not in src/; it is
\* modelled from spec.md, sections 4.4, 7 and 8.
\* ------------------------------------------------------------------------

\* the sample of one field in a batch: the last record with that id whose
\* value is not blank, None when there is none
RECURSIVE LatestSample(_, _, _)
LatestSample(field_values, field_id, found) ==
  IF field_values = <<>>
  THEN found
  ELSE LatestSample(Tail(field_values), field_id,
                    IF /\ Head(field_values).field_id = field_id
                       /\ ~is_fp64_blank(Head(field_values).value)
                    THEN Some(Head(field_values))
                    ELSE found)

\* a paired snapshot stamped with the power record's timestamp
PairedTimestampOfPower(power, sm) == power.timestamp

\* the snapshot timestamp: the larger of the two record timestamps
PairedTimestamp(power, sm) ==
  IF sm.timestamp > power.timestamp THEN sm.timestamp ELSE power.timestamp

\* the message of the FieldValueError, naming what was missing or blank
PairedMessage(power_missing, sm_missing) ==
  IF power_missing /\ sm_missing
  THEN "power usage and SM activity missing/blank"
  ELSE IF power_missing THEN "power usage missing/blank"
  ELSE "SM activity missing/blank"

\* the paired snapshot of power usage and SM activity
paired_snapshot(f, device_id, field_values) ==
  LET power == IF f.power_watched
               THEN LatestSample(field_values, DCGM_FI_DEV_POWER_USAGE, None)
               ELSE None
      sm == IF f.prof_watched
            THEN LatestSample(field_values, DCGM_FI_PROF_SM_ACTIVE, None)
            ELSE None
  IN IF power = None \/ sm = None
     THEN Err("FieldValueError", 0, PairedMessage(power = None, sm = None))
     ELSE Ok([device_id |-> device_id,
              timestamp |-> PairedTimestamp(power[1], sm[1]),
              power_usage |-> power[1].value,
              sm_active |-> sm[1].value])

\* ------------------------------------------------------------------------
\* get_basic_metrics on an open session.  get_device_field_values is called
\* by src/src/metrics.rs but its code is not in src/; it is modelled from
\* spec.md, section 4.3.
\* ------------------------------------------------------------------------

\* sample values: two readings and the blank sentinel, as an i64 and as a double
Int64Values == <<(<<0, 0, 0, 5>>), (<<-1, 65535, 65535, 65535>>), DCGM_INT64_BLANK>>
Fp64Values == <<(<<0, 0, 215, 400>>), (<<0, 0, 0, 730>>), DCGM_FP64_BLANK>>
SampleTimestamps == <<-1, 2, 1>>
Shapes == 1..3

\* the fields whose union member is a double
IsDoubleField(field_id) ==
  field_id \in {DCGM_FI_DEV_POWER_USAGE, DCGM_FI_PROF_SM_ACTIVE}

\* the record the daemon returns for a field id, in one of the sample shapes
SampleRecord(field_id, shape) ==
  FieldValue(field_id, SampleTimestamps[shape],
             IF IsDoubleField(field_id) THEN Fp64Values[shape] ELSE Int64Values[shape])

\* one record per requested field id, all of one shape
FullBatch(field_ids, shape) ==
  [i \in DOMAIN field_ids |-> SampleRecord(field_ids[i], shape)]

\* what the daemon may fill in for a request: every record, or only the first
ReturnedBatches(field_ids) ==
  {FullBatch(field_ids, 1), FullBatch(field_ids, 3),
   SubSeq(FullBatch(field_ids, 2), 1, 1)}

\* DCGM_FV_FLAG_LIVE_DATA
DCGM_FV_FLAG_LIVE_DATA == 1

\* the flags of the request
LiveFlag(live) == IF live THEN DCGM_FV_FLAG_LIVE_DATA ELSE 0

\* DcgmHandle::get_basic_metrics
get_basic_metrics ==
  /\ CanCall
  /\ \E device_id \in {0} :
     \E s1 \in Lookup("dcgmUpdateAllFields") :
       LET t1 == Learn(symtab, "dcgmUpdateAllFields", s1) IN
       IF ~s1
       THEN Ret("get_basic_metrics", "LibraryError", 0, <<>>, t1, Self, "open")
       ELSE
       \E r1 \in RefreshStatuses :
         LET c1 == RefreshCalls(WaitFlag(TRUE), r1) IN
         IF r1 # 0
         THEN Ret("get_basic_metrics", "ApiError", r1, c1, t1, Self, "open")
         ELSE
         \* get_device_field_values(device_id, &field_ids, true)
         \E s2 \in Lookup("dcgmEntitiesGetLatestValues") :
           LET t2 == Learn(t1, "dcgmEntitiesGetLatestValues", s2) IN
           IF ~s2
           THEN Ret("get_basic_metrics", "LibraryError", 0, c1, t2, Self, "open")
           ELSE
           \E r2 \in Statuses :
           \E field_values \in (IF r2 = 0 THEN ReturnedBatches(BasicFieldIds) ELSE {<<>>}) :
             LET c2 == c1 \o <<Call("dcgmEntitiesGetLatestValues", LiveFlag(TRUE), r2)>> IN
             IF r2 # 0
             THEN Ret("get_basic_metrics", "ApiError", r2, c2, t2, Self, "open")
             ELSE IF Len(field_values) < Len(BasicFieldIds)
             THEN RetV("get_basic_metrics", "FieldValueError", 0, c2, t2, Self, "open",
                       field_values, <<>>)
             ELSE
             LET r == AssembleBasicMetrics(device_id, field_values) IN
             RetV("get_basic_metrics", r.res, r.code, c2, t2, Self, "open",
                  field_values, r.value)

\* the statuses a teardown call may return: one choice when it is not made
StIf(called) == IF called THEN TeardownStatuses ELSE {0}

\* if self.handle != 0
DropGuard(h) == h # 0

\* lines 294-308: unwatch the field groups that were recorded
UnwatchCalls(f, ok, st) ==
  IF (f.power_group_id # 0 \/ f.prof_group_id # 0) /\ "dcgmUnwatchFields" \in ok
  THEN (IF f.power_group_id # 0
        THEN <<Call("dcgmUnwatchFields", f.power_group_id, st.unwatch_power)>>
        ELSE <<>>)
       \o (IF f.prof_group_id # 0
           THEN <<Call("dcgmUnwatchFields", f.prof_group_id, st.unwatch_prof)>>
           ELSE <<>>)
  ELSE <<>>

\* lines 310-321: destroy the field groups that were recorded
DestroyCalls(f, ok, st) ==
  IF "dcgmFieldGroupDestroy" \in ok
  THEN (IF f.power_group_id # 0
        THEN <<Call("dcgmFieldGroupDestroy", f.power_group_id, st.destroy_power)>>
        ELSE <<>>)
       \o (IF f.prof_group_id # 0
           THEN <<Call("dcgmFieldGroupDestroy", f.prof_group_id, st.destroy_prof)>>
           ELSE <<>>)
  ELSE <<>>

\* lines 323-329: stop embedded mode
StopEmbeddedCalls(f, ok, st) ==
  IF "dcgmStopEmbedded" \in ok
  THEN <<Call("dcgmStopEmbedded", f.handle, st.stop)>>
  ELSE <<>>

\* lines 331-337: shut DCGM down
ShutdownCalls(f, ok, st) ==
  IF "dcgmShutdown" \in ok
  THEN <<Call("dcgmShutdown", 0, st.shutdown)>>
  ELSE <<>>

\* Drop with the embedded engine stopped before the watches are released
DropCallsStopFirst(f, ok, st) ==
  IF ~DropGuard(f.handle) THEN <<>>
  ELSE StopEmbeddedCalls(f, ok, st) \o UnwatchCalls(f, ok, st)
       \o DestroyCalls(f, ok, st) \o ShutdownCalls(f, ok, st)

\* the daemon calls of Drop, in the order the code issues them: `ok` is the
\* set of teardown entry points lib.get resolves, `st` the status of each call
DropCalls(f, ok, st) ==
  IF ~DropGuard(f.handle) THEN <<>>
  ELSE UnwatchCalls(f, ok, st) \o DestroyCalls(f, ok, st)
       \o StopEmbeddedCalls(f, ok, st) \o ShutdownCalls(f, ok, st)

\* the entry points Drop looks up
DropLookups(f) ==
  IF ~DropGuard(f.handle) THEN {}
  ELSE (IF f.power_group_id # 0 \/ f.prof_group_id # 0
        THEN {"dcgmUnwatchFields"} ELSE {})
       \cup {"dcgmFieldGroupDestroy", "dcgmStopEmbedded", "dcgmShutdown"}

\* impl Drop for DcgmHandle
drop ==
  /\ pc = "open"
  /\ \E ok \in SUBSET DropLookups(Self) :
       LET live == DropGuard(handle)
           pg == power_group_id # 0
           fg == prof_group_id # 0
       IN
       \E s1 \in StIf(live /\ pg /\ "dcgmUnwatchFields" \in ok),
          s2 \in StIf(live /\ fg /\ "dcgmUnwatchFields" \in ok),
          s3 \in StIf(live /\ pg /\ "dcgmFieldGroupDestroy" \in ok),
          s4 \in StIf(live /\ fg /\ "dcgmFieldGroupDestroy" \in ok),
          s5 \in StIf(live /\ "dcgmStopEmbedded" \in ok),
          s6 \in StIf(live /\ "dcgmShutdown" \in ok) :
         LET st == [unwatch_power |-> s1, unwatch_prof |-> s2,
                    destroy_power |-> s3, destroy_prof |-> s4,
                    stop |-> s5, shutdown |-> s6]
             tab == [s \in EntryPoints |->
                       IF s \in DropLookups(Self)
                       THEN (IF s \in ok THEN "present" ELSE "missing")
                       ELSE symtab[s]]
         IN Ret("drop", "Ok", 0, DropCalls(Self, ok, st), tab, Self, "closed")

\* the session lifecycle: opening, watch enrollment, teardown
Next ==
  \/ new
  \/ with_connection
  \/ enable_power_metrics
  \/ enable_profiling_metrics
  \/ drop

Spec == Init /\ [][Next]_vars

\* a session that is opened and polled: enrollment, refreshes and reads
NextPoll ==
  \/ new
  \/ with_connection
  \/ enable_profiling_metrics
  \/ update_all_fields
  \/ get_device_ids
  \/ get_basic_metrics

SpecPoll == Init /\ [][NextPoll]_vars

\* ------------------------------------------------------------------------
\* The value functions applied to one input each: the blank test, the reason
\* decoder and the two assemblers, on every input of a bounded set
\* ------------------------------------------------------------------------
MaxReasonBits == 10   \* reason masks range over the low MaxReasonBits bits
MaxBatch == 2         \* records in a batch handed to an assembler

RECURSIVE Pow2(_)
Pow2(n) == IF n = 0 THEN 1 ELSE 2 * Pow2(n - 1)

\* i64 values around zero, around both ends of the range and around the sentinel
Int64Samples ==
  {<<h, a, b, l>> : h \in {-32768, -1, 0, 32766, 32767}, a \in {0, 65535},
                    b \in {0, 65535}, l \in {0, 65519, 65520, 65521, 65535}}

\* Option<u64> reason masks: None, and every mask of the low bits, with the
\* high bits clear or set
ReasonMasks ==
  {None} \cup {Some(<<h, 0, 0, m>>) : h \in {0, 65535}, m \in 0..(Pow2(MaxReasonBits) - 1)}

\* sequences of at most n elements of R
SeqsUpTo(R, n) == UNION {[1..k -> R] : k \in 0..n}

\* field_id of a record slot the daemon left as DcgmFieldValue::default()
DefaultFieldId == 0

\* records of the fields get_basic_metrics knows, and of two it does not
AssembleIds ==
  {BasicFieldIds[i] : i \in DOMAIN BasicFieldIds}
  \cup {DCGM_FI_PROF_SM_ACTIVE, DefaultFieldId}
AssembleRecords == {SampleRecord(id, shape) : id \in AssembleIds, shape \in Shapes}

\* records of the two paired fields, and of one other field
PairedIds == {DCGM_FI_DEV_POWER_USAGE, DCGM_FI_PROF_SM_ACTIVE, DCGM_FI_DEV_GPU_TEMP}
PairedRecords == {SampleRecord(id, shape) : id \in PairedIds, shape \in Shapes}

Input(fn, x) == [fn |-> fn, x |-> x]

FnInputs ==
  {Input("is_int64_blank", v) : v \in Int64Samples}
  \cup {Input("decode_throttle_reasons", m) : m \in ReasonMasks}
  \cup {Input("get_basic_metrics", b) : b \in SeqsUpTo(AssembleRecords, MaxBatch)}
  \cup {Input("paired_snapshot", b) : b \in SeqsUpTo(PairedRecords, MaxBatch)}

\* an open session about to apply one function to one input; the paired
\* snapshot reads the enrollment flags of the handle
InitFn ==
  /\ pc = "call"
  /\ data \in FnInputs
  /\ val = <<>>
  /\ handle = 1
  /\ power_watched \in (IF data.fn = "paired_snapshot" THEN BOOLEAN ELSE {FALSE})
  /\ prof_watched \in (IF data.fn = "paired_snapshot" THEN BOOLEAN ELSE {FALSE})
  /\ power_group_id = 0
  /\ prof_group_id = 0
  /\ symtab = [s \in EntryPoints |-> "unknown"]
  /\ log = <<>>
  /\ hist = <<>>

Return(fn, v) ==
  /\ pc = "call"
  /\ data.fn = fn
  /\ pc' = "return"
  /\ val' = v
  /\ UNCHANGED <<handle, power_watched, prof_watched, power_group_id,
                 prof_group_id, symtab, log, hist, data>>

call_is_int64_blank ==
  Return("is_int64_blank", is_int64_blank(data.x))

call_decode_throttle_reasons ==
  Return("decode_throttle_reasons",
         decode_throttle_reasons(
           [NewGpuMetrics(0) EXCEPT !.clock_throttle_reasons = data.x]))

call_assemble_basic_metrics ==
  Return("get_basic_metrics", AssembleBasicMetrics(0, data.x))

call_paired_snapshot ==
  Return("paired_snapshot", paired_snapshot(Self, 0, data.x))

NextFn ==
  \/ call_is_int64_blank
  \/ call_decode_throttle_reasons
  \/ call_assemble_basic_metrics
  \/ call_paired_snapshot

SpecFn == InitFn /\ [][NextFn]_vars

\* ------------------------------------------------------------------------
\* Properties
\* ------------------------------------------------------------------------

\* positions of the calls to one entry point
CallsTo(fn) == {i \in DOMAIN log : log[i].fn = fn}

\* the daemon calls operation k of hist issued
CallsOf(k) == SubSeq(log, hist[k].at + 1, hist[k].at + hist[k].ncalls)

\* the place of a daemon call in the teardown order (0: not a teardown call)
TeardownRank(fn) ==
  CASE fn = "dcgmUnwatchFields" -> 1
    [] fn = "dcgmFieldGroupDestroy" -> 2
    [] fn = "dcgmStopEmbedded" -> 3
    [] fn = "dcgmShutdown" -> 4
    [] OTHER -> 0

\* the library exported every entry point that was looked up
LibraryComplete == \A s \in EntryPoints : symtab[s] # "missing"

\* C1: the daemon calls of a teardown are issued in the order unwatch-fields,
\* field-group-destroy, stop-embedded, shutdown: no call of an earlier step
\* (and no ordinary call) follows a call of a later step, and nothing follows
\* a shutdown call.
C1_TeardownOrder ==
  \A i, j \in DOMAIN log :
    i < j => /\ TeardownRank(log[i].fn) <= TeardownRank(log[j].fn)
             /\ log[i].fn # "dcgmShutdown"

\* C1 witness: a dropped session whose teardown issued all four kinds of call
C1_Witness ==
  /\ pc = "closed"
  /\ \A fn \in {"dcgmUnwatchFields", "dcgmFieldGroupDestroy",
                "dcgmStopEmbedded", "dcgmShutdown"} : CallsTo(fn) # {}

\* C2: whenever new() or with_connection() has initialized the daemon binding
\* (dcgmInit returned 0) and then fails at the start-embedded or connect step,
\* a shutdown call is issued before the error is returned.
C2_ShutdownOnFailedOpen ==
  ( /\ pc = "error"
    /\ \E i \in CallsTo("dcgmInit") : log[i].st = 0
    /\ \E i \in CallsTo("dcgmStartEmbedded") \cup CallsTo("dcgmConnect") :
         log[i].st # 0 )
  => CallsTo("dcgmShutdown") # {}

\* C3: every opened session is torn down exactly once, whatever handle value
\* the daemon assigned: once the handle is dropped (and the library exports
\* its entry points) exactly one shutdown call has been issued, and it is the
\* last call, after the watch releases.
C3_ExactlyOneShutdown ==
  (pc = "closed" /\ LibraryComplete)
  => /\ Cardinality(CallsTo("dcgmShutdown")) = 1
     /\ log[Len(log)].fn = "dcgmShutdown"

\* C4: stop-embedded is issued during teardown if and only if the session was
\* opened in embedded mode: a session opened with with_connection never issues
\* it, and a session opened with new() issues it (when the handle is not 0
\* and the library exports its entry points).
C4_StopEmbeddedIffEmbedded ==
  pc = "closed"
  => /\ hist[1].op = "with_connection" => CallsTo("dcgmStopEmbedded") = {}
     /\ ( /\ hist[1].op = "new"
          /\ handle # 0
          /\ LibraryComplete )
        => CallsTo("dcgmStopEmbedded") # {}

\* the part of a handle's state that belongs to one enable operation
CategoryState(op, f) ==
  IF op = "enable_power_metrics"
  THEN <<f.power_watched, f.power_group_id>>
  ELSE <<f.prof_watched, f.prof_group_id>>

EnableOps == {"enable_power_metrics", "enable_profiling_metrics"}

\* C5: enrolling a watch category is idempotent: once enable_power_metrics
\* (resp. enable_profiling_metrics) has returned success, every later call of
\* the same operation returns success, issues no daemon call, changes nothing
\* in the handle, and the category's watched flag and group id are those left
\* by the first successful call.
C5_EnableIdempotent ==
  \A i, j \in DOMAIN hist :
    ( /\ i < j
      /\ hist[i].op \in EnableOps
      /\ hist[j].op = hist[i].op
      /\ hist[i].res = "Ok" )
    => /\ hist[j].res = "Ok"
       /\ hist[j].ncalls = 0
       /\ hist[j].post = hist[j - 1].post
       /\ CategoryState(hist[j].op, hist[j].post)
            = CategoryState(hist[i].op, hist[i].post)

\* C5 witness: profiling enrollment succeeded with daemon calls and was
\* requested again
C5_Witness ==
  \E i, j \in DOMAIN hist :
    /\ i < j
    /\ hist[i].op = "enable_profiling_metrics"
    /\ hist[i].res = "Ok"
    /\ hist[i].ncalls = 2
    /\ hist[j].op = "enable_profiling_metrics"

\* the accepted watch-fields calls on field group g
AcceptedWatches(g) ==
  {i \in CallsTo("dcgmWatchFields") : log[i].arg = g /\ log[i].st = 0}

\* the teardown calls: those issued by drop
TeardownCallsTo(fn, g) ==
  {i \in CallsTo(fn) : /\ log[i].arg = g
                       /\ i > hist[Len(hist)].at
                       /\ hist[Len(hist)].op = "drop"}

\* C6: no daemon-side registration is leaked: once the session is dropped
\* (with a non-zero handle and every entry point exported), teardown
\* has issued field-group-destroy for every field group the daemon created for
\* this session, and unwatch-fields before it for every such group on which
\* the daemon accepted a watch.
C6_NoLeakedRegistration ==
  ( /\ pc = "closed"
    /\ handle # 0
    /\ LibraryComplete )
  => \A g \in CreatedGroups(log) :
       /\ TeardownCallsTo("dcgmFieldGroupDestroy", g) # {}
       /\ AcceptedWatches(g) # {}
          => \E u \in TeardownCallsTo("dcgmUnwatchFields", g) :
               \A d \in TeardownCallsTo("dcgmFieldGroupDestroy", g) : u < d

\* operation k is a profiling enrollment whose watch-fields call returned st
WatchReturned(k, st) ==
  /\ hist[k].op = "enable_profiling_metrics"
  /\ hist[k].ncalls = 2
  /\ CallsOf(k)[2].fn = "dcgmWatchFields"
  /\ CallsOf(k)[2].st = st

\* C7: at most one live watch registration per category: the daemon has
\* accepted at most one watch-fields call (all of them are for the profiling
\* category), and enabling the power category has issued no daemon call and
\* recorded no group.
C7_AtMostOneWatch ==
  /\ Cardinality({i \in CallsTo("dcgmWatchFields") : log[i].st = 0}) <= 1
  /\ \A k \in DOMAIN hist :
       hist[k].op = "enable_power_metrics" => hist[k].ncalls = 0
  /\ power_group_id = 0

\* C7 witness: profiling was enabled again after the daemon accepted its watch
C7_Witness ==
  /\ Len(hist) >= 3
  /\ WatchReturned(2, 0)
  /\ hist[3].op = "enable_profiling_metrics"

\* C8: when the watch-fields call of profiling enrollment returns
\* DCGM_ST_REQUIRES_ROOT (-29), enable_profiling_metrics returns RequiresRoot
\* (not ApiError) and prof_watched stays false, and the next
\* enable_profiling_metrics call attempts enrollment again, starting with
\* field-group-create.
C8_RequiresRoot ==
  \A k \in DOMAIN hist :
    WatchReturned(k, DCGM_ST_REQUIRES_ROOT)
    => /\ hist[k].res = "RequiresRoot"
       /\ ~hist[k].post.prof_watched
       /\ \A j \in DOMAIN hist :
            ( /\ j > k
              /\ hist[j].op = "enable_profiling_metrics"
              /\ \A m \in (k + 1)..(j - 1) :
                   hist[m].op # "enable_profiling_metrics" )
            => /\ hist[j].ncalls >= 1
               /\ CallsOf(j)[1].fn = "dcgmFieldGroupCreate"

\* C8 witness: an enrollment refused with -29 is followed by another attempt
C8_Witness ==
  \E k \in DOMAIN hist :
    /\ WatchReturned(k, DCGM_ST_REQUIRES_ROOT)
    /\ k + 1 \in DOMAIN hist
    /\ hist[k + 1].op = "enable_profiling_metrics"

\* C9: new() fails with InitializationError whenever dcgmStartEmbedded returns
\* a non-zero status, and then returns no handle.
C9_InitializationError ==
  ( /\ hist # <<>>
    /\ hist[1].op = "new"
    /\ \E i \in CallsTo("dcgmStartEmbedded") : log[i].st # 0 )
  => /\ hist[1].res = "InitializationError"
     /\ pc = "error"

\* C10: with_connection() fails with ConnectionFailed for every non-zero
\* status of dcgmConnect, and returns a handle only when dcgmConnect returned 0.
C10_ConnectionFailed ==
  (hist # <<>> /\ hist[1].op = "with_connection")
  => /\ \A i \in CallsTo("dcgmConnect") :
          log[i].st # 0 => hist[1].res = "ConnectionFailed" /\ pc = "error"
     /\ hist[1].res = "Ok"
        => \E i \in CallsTo("dcgmConnect") : log[i].st = 0

\* C10 witness: a connect refused with the requires-root status
C10_Witness ==
  /\ pc = "error"
  /\ hist[1].op = "with_connection"
  /\ hist[1].res = "ConnectionFailed"
  /\ \E i \in CallsTo("dcgmConnect") : log[i].st = DCGM_ST_REQUIRES_ROOT

\* the operations of the core that call the daemon outside teardown
CoreOps ==
  {"new", "with_connection", "enable_profiling_metrics", "update_all_fields",
   "get_device_ids", "get_basic_metrics"}

\* the error variants of DcgmError
TypedErrors ==
  {"LibraryError", "ApiError", "InitializationError", "ConnectionFailed",
   "FieldValueError", "RequiresRoot"}

\* the two non-zero statuses an operation goes on after: duplicate key from
\* the group creation, and any status of the refresh that ends an open
Tolerated(op, c) ==
  \/ c.fn = "dcgmFieldGroupCreate" /\ c.st = DCGM_ST_DUPLICATE_KEY
  \/ op \in {"new", "with_connection"} /\ c.fn = "dcgmUpdateAllFields"

\* C11: nothing is retried: within one invocation of new, with_connection,
\* enable_profiling_metrics, update_all_fields, get_device_ids or
\* get_basic_metrics every daemon entry point is called at most once, and a
\* call that returns a non-zero status (other than the tolerated duplicate key
\* and the initial refresh) is the last call of the invocation, which returns
\* a typed error.
C11_NothingRetried ==
  \A k \in DOMAIN hist :
    hist[k].op \in CoreOps =>
      LET cs == CallsOf(k) IN
      /\ \A i, j \in DOMAIN cs : i # j => cs[i].fn # cs[j].fn
      /\ \A i \in DOMAIN cs :
           (cs[i].st # 0 /\ ~Tolerated(hist[k].op, cs[i])) =>
             /\ i = Len(cs)
             /\ hist[k].res \in TypedErrors

\* a refresh and a snapshot read that each got a non-zero status from the
\* daemon and returned it after that single call
C11_Witness ==
  \E k, m \in DOMAIN hist :
    /\ hist[k].op = "update_all_fields" /\ hist[k].res = "ApiError"
    /\ hist[k].ncalls = 1 /\ CallsOf(k)[1].st # 0
    /\ hist[m].op = "get_basic_metrics" /\ hist[m].res = "ApiError"
    /\ hist[m].ncalls = 2 /\ CallsOf(m)[2].st # 0

\* the nine causes of the clock event reason mask: bit position and name
Causes ==
  {[bit |-> 0, name |-> "GPU_IDLE"], [bit |-> 1, name |-> "CLOCKS_SETTING"],
   [bit |-> 2, name |-> "SW_POWER_CAP"], [bit |-> 3, name |-> "HW_SLOWDOWN"],
   [bit |-> 4, name |-> "SYNC_BOOST"], [bit |-> 5, name |-> "SW_THERMAL"],
   [bit |-> 6, name |-> "HW_THERMAL"], [bit |-> 7, name |-> "HW_POWER_BRAKE"],
   [bit |-> 8, name |-> "DISPLAY_CLOCKS"]}

\* bit k of a u64 mask, k < 16
BitIsSet(mask, k) == (mask[4] \div Pow2(k)) % 2 = 1

\* the names in a decoded list
NamesOf(decoded) == {decoded[i] : i \in DOMAIN decoded}

\* C12: decoding a clock-throttle mask yields exactly the named causes whose
\* bit is set, for all nine causes (idle, clock setting, software power cap,
\* hardware slowdown, sync boost, software thermal, hardware thermal, hardware
\* power brake, display clocks); the mask 0 decodes to the empty list.
C12_DecodeExactlySetBits ==
  (pc = "return" /\ data.fn = "decode_throttle_reasons" /\ data.x # None) =>
    /\ val.throttle_reasons # None
    /\ \A c \in Causes :
         c.name \in NamesOf(val.throttle_reasons[1]) <=> BitIsSet(data.x[1], c.bit)
    /\ NamesOf(val.throttle_reasons[1]) \subseteq {c.name : c \in Causes}

\* a snapshot assembled from a batch that holds at least one record
Assembled ==
  pc = "return" /\ data.fn = "get_basic_metrics" /\ data.x # <<>>

\* the largest timestamp among the records of a non-empty batch
MaxTimestamp(field_values) ==
  CHOOSE t \in {field_values[i].timestamp : i \in DOMAIN field_values} :
    \A i \in DOMAIN field_values : field_values[i].timestamp <= t

\* C13: the timestamp of the snapshot get_basic_metrics returns is the
\* maximum of the timestamps of the records of the batch, for every non-empty
\* batch and every combination of signed timestamps.
C13_TimestampIsMaximum ==
  Assembled =>
    /\ val.res = "Ok"
    /\ val.value.timestamp = MaxTimestamp(data.x)

\* x < y on values written most significant limb first
Below(x, y) ==
  \E i \in 1..4 : x[i] < y[i] /\ \A j \in 1..(i - 1) : x[j] = y[j]

\* the record holds a reading: its value is below the sentinel of its type
NotBlank(fv) ==
  IF IsDoubleField(fv.field_id)
  THEN Below(fv.value, <<32768, 0, 0, 0>>)
  ELSE Below(fv.value, <<32767, 65535, 65535, 65520>>)

\* the field ids get_basic_metrics has a match arm for
KnownIds == {BasicFieldIds[i] : i \in DOMAIN BasicFieldIds}

\* the optional fields of GpuMetrics
OptionalFields ==
  {"power_usage", "energy_consumption", "enforced_power_limit",
   "power_violation_time", "gpu_temp", "max_gpu_temp", "thermal_violation_time",
   "fb_total", "fb_free", "fb_used", "gpu_util", "sm_clock", "mem_clock",
   "clock_throttle_reasons", "throttle_reasons"}

\* no record of the batch has a field id of the known mapping
AllUnknown(field_values) ==
  \A i \in DOMAIN field_values : field_values[i].field_id \notin KnownIds

AllEmpty(metrics) == \A f \in OptionalFields : metrics[f] = None

\* C14 as stated: get_basic_metrics on any batch in which every record's
\* field id is outside the known mapping, the batch with no records included,
\* returns success with every optional field empty and never an error.
C14_UnknownOnlyIsSuccess ==
  (pc = "return" /\ data.fn = "get_basic_metrics" /\ AllUnknown(data.x)) =>
    /\ val.res = "Ok"
    /\ AllEmpty(val.value)

\* C14 amended: on a batch with at least one record in which every record's
\* field id is outside the known mapping get_basic_metrics returns success
\* with every optional field empty; on the batch with no records it returns
\* a FieldValueError.
C14_UnknownOnlyNonEmptyIsSuccess ==
  (pc = "return" /\ data.fn = "get_basic_metrics" /\ AllUnknown(data.x)) =>
    IF data.x = <<>>
    THEN val.res = "FieldValueError"
    ELSE val.res = "Ok" /\ AllEmpty(val.value)

\* a snapshot assembled from two records of unknown field ids, one of them
\* holding a reading that is not blank
C14_Witness ==
  /\ Assembled
  /\ AllUnknown(data.x)
  /\ Len(data.x) = 2
  /\ \E i \in DOMAIN data.x : NotBlank(data.x[i])
  /\ val.res = "Ok"

\* the optional field of the snapshot that belongs to a known field id
FieldOfId(field_id) ==
  CASE field_id = 155 -> "power_usage"
    [] field_id = 156 -> "energy_consumption"
    [] field_id = 150 -> "gpu_temp"
    [] field_id = 152 -> "max_gpu_temp"
    [] field_id = 164 -> "enforced_power_limit"
    [] field_id = 250 -> "fb_total"
    [] field_id = 251 -> "fb_free"
    [] field_id = 252 -> "fb_used"
    [] field_id = 203 -> "gpu_util"
    [] field_id = 100 -> "sm_clock"
    [] field_id = 101 -> "mem_clock"
    [] field_id = 240 -> "power_violation_time"
    [] field_id = 241 -> "thermal_violation_time"
    [] field_id = 112 -> "clock_throttle_reasons"

\* the readings of one field id in a batch
Readings(field_values, field_id) ==
  {i \in DOMAIN field_values :
     field_values[i].field_id = field_id /\ NotBlank(field_values[i])}

\* the value as the snapshot field holds it: the reason mask is kept unsigned
Held(field_id, value) ==
  IF field_id = 112 /\ value[1] < 0
  THEN <<value[1] + 65536, value[2], value[3], value[4]>>
  ELSE value

AtOrAboveSentinel(v) ==
  v[1] = 32767 /\ v[2] = 65535 /\ v[3] = 65535 /\ v[4] >= 65520

\* C16: for every signed 64-bit v, is_int64_blank(v) is true exactly when
\* v >= 0x7FFFFFFFFFFFFFF0; every negative value and every value below the
\* sentinel is not blank.
C16_BlankIffAtOrAboveSentinel ==
  (pc = "return" /\ data.fn = "is_int64_blank") =>
    /\ val = AtOrAboveSentinel(data.x)
    /\ data.x[1] < 0 => val = FALSE

\* the sentinel itself was tested and found blank
C16_Witness ==
  /\ pc = "return"
  /\ data.fn = "is_int64_blank"
  /\ data.x = <<32767, 65535, 65535, 65520>>
  /\ val = TRUE

\* the last operation was get_device_ids and it called dcgmGetAllDevices
DeviceIdsCalled ==
  /\ hist # <<>>
  /\ hist[Len(hist)].op = "get_device_ids"
  /\ hist[Len(hist)].ncalls = 1

\* C17: when dcgmGetAllDevices returns status 0 and a count c within the
\* 32-slot buffer, get_device_ids returns exactly the first c identifiers the
\* daemon wrote, in the daemon's order; for c = 0 that is the empty sequence
\* and not an error; a non-zero status is returned as ApiError carrying it.
C17_FirstCountIds ==
  DeviceIdsCalled =>
    LET k == Len(hist)
        call == CallsOf(k)[1]
    IN /\ (call.st = 0 /\ call.arg \in 0..32) =>
            /\ hist[k].res = "Ok"
            /\ Len(val) = call.arg
            /\ \A i \in 1..call.arg : val[i] = data[i]
       /\ call.st # 0 => hist[k].res = "ApiError" /\ hist[k].code = call.st

\* the daemon reported two devices, listed downwards, and both were returned
C17_Witness ==
  /\ DeviceIdsCalled
  /\ CallsOf(Len(hist))[1].st = 0
  /\ CallsOf(Len(hist))[1].arg = 2
  /\ data[1] = 1 /\ data[2] = 0
  /\ val = <<1, 0>>

\* a paired snapshot was requested for the batch in data.x
PairedReturned == pc = "return" /\ data.fn = "paired_snapshot"

\* the values a FieldValueError message of the paired snapshot names
NamedMissing(msg) ==
  CASE msg = "power usage missing/blank" -> {"power"}
    [] msg = "SM activity missing/blank" -> {"sm"}
    [] msg = "power usage and SM activity missing/blank" -> {"power", "sm"}
    [] OTHER -> {}

Larger(a, b) == IF a >= b THEN a ELSE b

\* C18: the paired snapshot succeeds only when the power and the profiling
\* category are both enrolled and the batch holds a non-blank record of power
\* usage and one of SM activity; its timestamp is then the larger of the two
\* record timestamps.  When either value is missing or blank it fails with a
\* FieldValueError whose message names the missing value, or both.
C18_PairedSnapshot ==
  PairedReturned =>
    LET power == Readings(data.x, 155)
        sm == Readings(data.x, 1002)
    IN /\ val.res = "Ok" =>
            /\ power_watched /\ prof_watched
            /\ \E i \in power, j \in sm :
                 /\ val.value.power_usage = data.x[i].value
                 /\ val.value.sm_active = data.x[j].value
                 /\ val.value.timestamp =
                      Larger(data.x[i].timestamp, data.x[j].timestamp)
       /\ (power = {} \/ sm = {}) =>
            /\ val.res = "FieldValueError"
            /\ (power = {}) => "power" \in NamedMissing(val.msg)
            /\ (sm = {}) => "sm" \in NamedMissing(val.msg)

\* both categories enrolled, a power reading with the older timestamp and an
\* SM-activity reading with the newer one: the snapshot carries the newer
C18_Witness ==
  /\ PairedReturned
  /\ power_watched /\ prof_watched
  /\ Len(data.x) = 2
  /\ data.x[1].field_id = 155 /\ NotBlank(data.x[1])
  /\ data.x[2].field_id = 1002 /\ NotBlank(data.x[2])
  /\ data.x[1].timestamp < data.x[2].timestamp
  /\ val.res = "Ok"
  /\ val.value.timestamp = data.x[2].timestamp

\* the field groups the handle has recorded
RecordedGroups == {power_group_id, prof_group_id} \ {0}

\* the entry point of a teardown step did not fail to resolve
Resolves(fn) == symtab[fn] # "missing"

\* the teardown issued a call to fn
TeardownIssued(fn) ==
  /\ hist[Len(hist)].op = "drop"
  /\ \E i \in CallsTo(fn) : i > hist[Len(hist)].at

\* C19: every teardown step is best-effort and independent: whichever of the
\* unwatch, destroy and stop-embedded calls return non-zero or fail to
\* resolve, every other step whose entry point resolves is still attempted
\* (unwatch and destroy for each recorded group, stop-embedded), shutdown is
\* still issued, and the teardown surfaces no error.
C19_BestEffortTeardown ==
  pc = "closed" =>
    /\ Resolves("dcgmUnwatchFields") =>
         \A g \in RecordedGroups : TeardownCallsTo("dcgmUnwatchFields", g) # {}
    /\ Resolves("dcgmFieldGroupDestroy") =>
         \A g \in RecordedGroups : TeardownCallsTo("dcgmFieldGroupDestroy", g) # {}
    /\ Resolves("dcgmStopEmbedded") => TeardownIssued("dcgmStopEmbedded")
    /\ Resolves("dcgmShutdown") => TeardownIssued("dcgmShutdown")
    /\ hist[Len(hist)].res = "Ok"

\* C20: in enable_profiling_metrics a duplicate-key status (-26) from the
\* group creation counts as success: the operation goes on to watch-fields
\* and, when that returns 0, leaves the category watched and returns Ok;
\* every other non-zero creation status is returned as ApiError with that
\* status, and nothing is called after it.
C20_DuplicateKeyTolerated ==
  \A k \in DOMAIN hist :
    (hist[k].op = "enable_profiling_metrics" /\ hist[k].ncalls >= 1) =>
      LET cs == CallsOf(k)
          created == cs[1]
      IN /\ created.fn = "dcgmFieldGroupCreate"
         /\ created.st = -26 =>
              /\ hist[k].ncalls = 2 \/ hist[k].res = "LibraryError"
              /\ hist[k].ncalls = 2 =>
                   /\ cs[2].fn = "dcgmWatchFields"
                   /\ cs[2].st = 0 =>
                        hist[k].res = "Ok" /\ hist[k].post.prof_watched
         /\ created.st \notin {0, -26} =>
              /\ hist[k].res = "ApiError"
              /\ hist[k].code = created.st
              /\ hist[k].ncalls = 1

\* a creation that reported duplicate key, followed by an accepted watch
C20_Witness ==
  \E k \in DOMAIN hist :
    /\ hist[k].op = "enable_profiling_metrics"
    /\ hist[k].ncalls = 2
    /\ CallsOf(k)[1].st = -26
    /\ CallsOf(k)[2].st = 0
    /\ hist[k].res = "Ok"
    /\ hist[k].post.prof_watched

\* C21: enabling the power category performs no daemon call: every call of
\* enable_power_metrics returns success, issues nothing, leaves the power
\* flag true, and leaves the profiling flag, both group ids and the handle
\* value as they were before the call.
C21_EnablePowerFrame ==
  \A k \in DOMAIN hist :
    hist[k].op = "enable_power_metrics" =>
      /\ hist[k].res = "Ok"
      /\ hist[k].ncalls = 0
      /\ hist[k].post.power_watched
      /\ hist[k].post.prof_watched = hist[k - 1].post.prof_watched
      /\ hist[k].post.power_group_id = hist[k - 1].post.power_group_id
      /\ hist[k].post.prof_group_id = hist[k - 1].post.prof_group_id
      /\ hist[k].post.handle = hist[k - 1].post.handle

\* the power category was enabled on a session whose profiling category was
\* not watched: the power flag went from false to true
C21_Witness ==
  \E k \in DOMAIN hist :
    /\ hist[k].op = "enable_power_metrics"
    /\ ~hist[k - 1].post.power_watched
    /\ ~hist[k - 1].post.prof_watched
    /\ hist[k].post.power_watched
    /\ hist[k].res = "Ok"

\* C22: a broad snapshot read goes refresh, value request, decode: the first
\* daemon call of get_basic_metrics is update-all-fields with the wait flag
\* set; a non-zero status of it is returned as ApiError with nothing called
\* after it; the field-value request comes second, after a refresh that
\* returned 0, with the live-data flag set; and a snapshot is returned only
\* after a value request that returned 0.
C22_RefreshRequestDecode ==
  \A k \in DOMAIN hist :
    (hist[k].op = "get_basic_metrics" /\ hist[k].ncalls >= 1) =>
      LET cs == CallsOf(k) IN
      /\ cs[1].fn = "dcgmUpdateAllFields"
      /\ cs[1].arg = 1
      /\ cs[1].st # 0 =>
           /\ hist[k].ncalls = 1
           /\ hist[k].res = "ApiError"
           /\ hist[k].code = cs[1].st
      /\ hist[k].ncalls <= 2
      /\ hist[k].ncalls = 2 =>
           /\ cs[1].st = 0
           /\ cs[2].fn = "dcgmEntitiesGetLatestValues"
           /\ cs[2].arg = 1
      /\ hist[k].res = "Ok" => hist[k].ncalls = 2 /\ cs[2].st = 0

\* one read that returned a snapshot after both calls, and one that stopped
\* at a failed refresh
C22_Witness ==
  \E k, m \in DOMAIN hist :
    /\ hist[k].op = "get_basic_metrics"
    /\ hist[k].res = "Ok"
    /\ hist[k].ncalls = 2
    /\ hist[m].op = "get_basic_metrics"
    /\ hist[m].res = "ApiError"
    /\ hist[m].ncalls = 1

\* C23: device discovery stays within the 32-slot buffer: for every count
\* dcgmGetAllDevices may report with status 0, a negative count and a count
\* above 32 included, get_device_ids returns at most 32 identifiers or a
\* DcgmError, and never aborts.
C23_DiscoveryBounded ==
  /\ \A k \in DOMAIN hist :
       hist[k].op = "get_device_ids" => hist[k].res \in {"Ok"} \cup TypedErrors
  /\ (DeviceIdsCalled /\ hist[Len(hist)].res = "Ok") => Len(val) <= 32

\* C24: a failed profiling enrollment leaves the session state unchanged:
\* whenever enable_profiling_metrics returns ApiError or RequiresRoot, the
\* watched flags and the recorded group ids of the handle are those from
\* before the call, and when the failure is at the group creation no
\* watch-fields call is issued.
C24_FailedEnrollmentFrame ==
  \A k \in DOMAIN hist :
    ( /\ hist[k].op = "enable_profiling_metrics"
      /\ hist[k].res \in {"ApiError", "RequiresRoot"} )
    => /\ hist[k].post = hist[k - 1].post
       /\ CreateFailed(CallsOf(k)[1].st) => hist[k].ncalls = 1

====
